---------------------------- MODULE Spec2Model ----------------------------
(***************************************************************************)
(* A model of the chat gateway of src/api/main.py: the module-level       *)
(* provider resolution (lines 10-22), the module-level definitions        *)
(* (lines 24-48) and the /chat handler (lines 48-77), run by several      *)
(* concurrent calls.                                                       *)
(*                                                                         *)
(* Texts are sequences: URLs and header values are sequences of           *)
(* one-character strings, HTTP bodies are sequences of bytes (0..255) and *)
(* decoded texts are sequences of code points.                            *)
(***************************************************************************)
EXTENDS Integers, Sequences, FiniteSets, TLC

(***************************************************************************)
(* Bounds of the model.                                                    *)
(***************************************************************************)
NReq == 2          \* concurrent /chat calls
MaxBaseLen == 3    \* longest configured base URL, in characters
MaxBodyLen == 3    \* longest enumerated backend body, in bytes

Calls == 1..NReq

RECURSIVE SeqsUpTo(_, _)
SeqsUpTo(S, n) ==
    IF n = 0 THEN {<<>>}
    ELSE LET shorter == SeqsUpTo(S, n - 1)
         IN  shorter \cup {Append(s, c) : s \in {t \in shorter : Len(t) = n - 1}, c \in S}

(***************************************************************************)
(* Python str helpers.                                                     *)
(***************************************************************************)
\* str.rstrip("/"): drops every trailing "/" of s.
RECURSIVE rstrip_slash(_)
rstrip_slash(s) ==
    IF s # <<>> /\ s[Len(s)] = "/" THEN rstrip_slash(SubSeq(s, 1, Len(s) - 1)) ELSE s

\* os.getenv(name): the value, or None (here: isNone) when the variable is unset.
getenv(env, name) ==
    IF name \in DOMAIN env THEN [isNone |-> FALSE, s |-> env[name]]
    ELSE [isNone |-> TRUE, s |-> <<>>]

\* `x or ""` for an optional string x: None and "" are both falsy.
or_empty(x) == IF x.isNone \/ x.s = <<>> THEN <<>> ELSE x.s

\* format(x) inside an f-string: str(None) is "None".
fstr(x) == IF x.isNone THEN <<"N", "o", "n", "e">> ELSE x.s

Bearer == <<"B", "e", "a", "r", "e", "r", " ">>
V1 == <<"/", "v", "1">>

(***************************************************************************)
(* UTF-8, for bytes below 0xE0 (one- and two-byte sequences): the bytes of *)
(* every body of the model.                                                *)
(***************************************************************************)
IsAscii(b) == b < 128
IsCont(b) == b >= 128 /\ b < 192
IsLead2(b) == b >= 194 /\ b < 224

\* bytes.decode("utf-8", "ignore"): an undecodable byte is dropped.
RECURSIVE decode_ignore_from(_, _)
decode_ignore_from(bs, i) ==
    IF i > Len(bs) THEN <<>>
    ELSE IF IsAscii(bs[i]) THEN <<bs[i]>> \o decode_ignore_from(bs, i + 1)
    ELSE IF IsLead2(bs[i]) /\ i < Len(bs) /\ IsCont(bs[i + 1])
         THEN <<(bs[i] - 192) * 64 + (bs[i + 1] - 128)>> \o decode_ignore_from(bs, i + 2)
    ELSE decode_ignore_from(bs, i + 1)

decode_ignore(bs) == decode_ignore_from(bs, 1)

\* Whether bytes.decode("utf-8") (strict) succeeds.
RECURSIVE valid_utf8_from(_, _)
valid_utf8_from(bs, i) ==
    IF i > Len(bs) THEN TRUE
    ELSE IF IsAscii(bs[i]) THEN valid_utf8_from(bs, i + 1)
    ELSE IF IsLead2(bs[i]) /\ i < Len(bs) /\ IsCont(bs[i + 1]) THEN valid_utf8_from(bs, i + 2)
    ELSE FALSE

valid_utf8(bs) == valid_utf8_from(bs, 1)

\* str.encode("utf-8") of code points below 0x800.
RECURSIVE encode_utf8(_)
encode_utf8(cs) ==
    IF cs = <<>> THEN <<>>
    ELSE LET c == Head(cs)
         IN  (IF c < 128 THEN <<c>> ELSE <<192 + (c \div 64), 128 + (c % 64)>>)
             \o encode_utf8(Tail(cs))

(***************************************************************************)
(* JSON, as json.loads reads it and json.dumps(separators=(",", ":"),      *)
(* ensure_ascii=False) writes it, for the values the bodies of the model   *)
(* hold: non-negative integers, strings (escapes \" \\ \/), arrays and     *)
(* objects.  A value is a record tagged by t; an object keeps its members  *)
(* in insertion order, as a Python dict does.  Bytes: 34 is ", 92 \, 47 /, *)
(* 44 the comma, 58 the colon, 91 and 93 the brackets, 123 and 125 the     *)
(* braces, 48..57 the digits.                                              *)
(***************************************************************************)
JsonWs == {32, 9, 10, 13}
Digits == 48..57

JNum(n) == [t |-> "num", n |-> n]
JStr(s) == [t |-> "str", s |-> s]
JArr(a) == [t |-> "arr", a |-> a]
JObj(m) == [t |-> "obj", m |-> m]

ParseFail == [ok |-> FALSE, v |-> JNum(0), i |-> 0]
ParseOk(v, i) == [ok |-> TRUE, v |-> v, i |-> i]

RECURSIVE SkipWs(_, _)
SkipWs(s, i) == IF i <= Len(s) /\ s[i] \in JsonWs THEN SkipWs(s, i + 1) ELSE i

\* dict[key] = value: replaces the value of a key already present.
RECURSIVE DictPut(_, _, _)
DictPut(m, k, v) ==
    IF m = <<>> THEN <<[k |-> k, v |-> v]>>
    ELSE IF Head(m).k = k THEN <<[k |-> k, v |-> v]>> \o Tail(m)
    ELSE <<Head(m)>> \o DictPut(Tail(m), k, v)

RECURSIVE ParseString(_, _, _)
ParseString(s, i, acc) ==
    IF i > Len(s) THEN ParseFail
    ELSE IF s[i] = 34 THEN ParseOk(JStr(acc), i + 1)
    ELSE IF s[i] = 92
         THEN IF i < Len(s) /\ s[i + 1] \in {34, 92, 47}
              THEN ParseString(s, i + 2, Append(acc, s[i + 1]))
              ELSE ParseFail
    ELSE IF s[i] < 32 THEN ParseFail
    ELSE ParseString(s, i + 1, Append(acc, s[i]))

RECURSIVE ParseDigits(_, _, _)
ParseDigits(s, i, n) ==
    IF i <= Len(s) /\ s[i] \in Digits THEN ParseDigits(s, i + 1, 10 * n + (s[i] - 48))
    ELSE ParseOk(JNum(n), i)

RECURSIVE ParseValue(_, _)
RECURSIVE ParseElems(_, _, _)
RECURSIVE ParseMembers(_, _, _)

ParseValue(s, i) ==
    IF i > Len(s) THEN ParseFail
    ELSE IF s[i] = 34 THEN ParseString(s, i + 1, <<>>)
    ELSE IF s[i] = 48 THEN ParseOk(JNum(0), i + 1)
    ELSE IF s[i] \in Digits THEN ParseDigits(s, i, 0)
    ELSE IF s[i] = 91
         THEN LET j == SkipWs(s, i + 1)
              IN  IF j <= Len(s) /\ s[j] = 93 THEN ParseOk(JArr(<<>>), j + 1)
                  ELSE ParseElems(s, j, <<>>)
    ELSE IF s[i] = 123
         THEN LET j == SkipWs(s, i + 1)
              IN  IF j <= Len(s) /\ s[j] = 125 THEN ParseOk(JObj(<<>>), j + 1)
                  ELSE ParseMembers(s, j, <<>>)
    ELSE ParseFail

ParseElems(s, i, acc) ==
    LET r == ParseValue(s, i)
    IN  IF ~r.ok THEN ParseFail
        ELSE LET j == SkipWs(s, r.i)
             IN  IF j > Len(s) THEN ParseFail
                 ELSE IF s[j] = 44 THEN ParseElems(s, SkipWs(s, j + 1), Append(acc, r.v))
                 ELSE IF s[j] = 93 THEN ParseOk(JArr(Append(acc, r.v)), j + 1)
                 ELSE ParseFail

ParseMembers(s, i, acc) ==
    IF i > Len(s) \/ s[i] # 34 THEN ParseFail
    ELSE LET k == ParseString(s, i + 1, <<>>)
         IN  IF ~k.ok THEN ParseFail
             ELSE LET c == SkipWs(s, k.i)
                  IN  IF c > Len(s) \/ s[c] # 58 THEN ParseFail
                      ELSE LET r == ParseValue(s, SkipWs(s, c + 1))
                           IN  IF ~r.ok THEN ParseFail
                               ELSE LET j == SkipWs(s, r.i)
                                        m == DictPut(acc, k.v.s, r.v)
                                    IN  IF j > Len(s) THEN ParseFail
                                        ELSE IF s[j] = 44
                                             THEN ParseMembers(s, SkipWs(s, j + 1), m)
                                        ELSE IF s[j] = 125 THEN ParseOk(JObj(m), j + 1)
                                        ELSE ParseFail

\* json.loads(bytes): strict UTF-8, one value, nothing but whitespace around it.
json_loads(bs) ==
    IF ~valid_utf8(bs) THEN ParseFail
    ELSE LET s == decode_ignore(bs)
             r == ParseValue(s, SkipWs(s, 1))
         IN  IF r.ok /\ SkipWs(s, r.i) = Len(s) + 1 THEN r ELSE ParseFail

RECURSIVE IntToDigits(_)
IntToDigits(n) ==
    IF n < 10 THEN <<48 + n>> ELSE Append(IntToDigits(n \div 10), 48 + (n % 10))

RECURSIVE EscapeString(_)
EscapeString(s) ==
    IF s = <<>> THEN <<>>
    ELSE (IF Head(s) \in {34, 92} THEN <<92, Head(s)>> ELSE <<Head(s)>>)
         \o EscapeString(Tail(s))

DumpString(s) == <<34>> \o EscapeString(s) \o <<34>>

RECURSIVE DumpValue(_)
RECURSIVE DumpElems(_)
RECURSIVE DumpMembers(_)

DumpValue(v) ==
    IF v.t = "num" THEN IntToDigits(v.n)
    ELSE IF v.t = "str" THEN DumpString(v.s)
    ELSE IF v.t = "arr" THEN <<91>> \o DumpElems(v.a) \o <<93>>
    ELSE <<123>> \o DumpMembers(v.m) \o <<125>>

DumpElems(a) ==
    IF a = <<>> THEN <<>>
    ELSE IF Len(a) = 1 THEN DumpValue(a[1])
    ELSE DumpValue(a[1]) \o <<44>> \o DumpElems(Tail(a))

DumpMembers(m) ==
    IF m = <<>> THEN <<>>
    ELSE LET one == DumpString(m[1].k) \o <<58>> \o DumpValue(m[1].v)
         IN  IF Len(m) = 1 THEN one ELSE one \o <<44>> \o DumpMembers(Tail(m))

\* The body a JSONResponse renders for a value.
json_render(v) == encode_utf8(DumpValue(v))

(***************************************************************************)
(* Python dict helpers.  A dict with string keys is a function.            *)
(***************************************************************************)
EmptyDict == [k \in {} |-> 0]

\* {**a, **b}: the keys of both, b's value where both have the key.
dict_merge(a, b) ==
    [k \in DOMAIN a \cup DOMAIN b |-> IF k \in DOMAIN b THEN b[k] ELSE a[k]]

\* d.get(k): the value, or None when the key is absent.
dict_get(d, k) == IF k \in DOMAIN d THEN d[k] ELSE "None"

(***************************************************************************)
(* The state.                                                              *)
(***************************************************************************)
VARIABLES
    environ,       \* os.environ: the variables that are set
    modpc,         \* where the import of the module stands
    PROVIDER,      \* line 10
    BASE_URL,      \* lines 14, 18
    AUTH_HEADER,   \* lines 16, 20
    DEFAULT_GEN,   \* lines 24-29
    routes,        \* the paths registered on app (lines 44, 48, 79)
    request,       \* per call: the HTTP request its client sends
    backend,       \* per call: what the backend does with the call's POST
    pc,            \* per call: where the handler stands
    body,          \* per call: line 50
    gen,           \* per call: line 55
    payload,       \* per call: lines 56-65
    outbound,      \* per call: the client.post calls made (line 71), in order
    resp,          \* per call: line 71
    exc,           \* per call: the HTTPException raised (lines 53, 74)
    response       \* per call: what the caller receives

config == <<PROVIDER, BASE_URL, AUTH_HEADER>>
globals == <<modpc, PROVIDER, BASE_URL, AUTH_HEADER, DEFAULT_GEN, routes>>
inputs == <<environ, request, backend>>
locals == <<pc, body, gen, payload, outbound, resp, exc, response>>
vars == <<environ, modpc, PROVIDER, BASE_URL, AUTH_HEADER, DEFAULT_GEN, routes,
          request, backend, pc, body, gen, payload, outbound, resp, exc, response>>

(***************************************************************************)
(* Lines 10-22: provider resolution.                                       *)
(***************************************************************************)
\* os.getenv("PROVIDER", "HF_TGI")
provider_of(env) == IF "PROVIDER" \in DOMAIN env THEN env["PROVIDER"] ELSE "HF_TGI"

\* The mutant of resolve that keeps the configured base as it is.
resolve_nostrip(env) ==
    LET p == provider_of(env)
    IN  IF p = "HF_TGI"
        THEN [ok |-> TRUE,
              BASE_URL |-> or_empty(getenv(env, "HF_API_BASE")) \o V1,
              AUTH_HEADER |-> Bearer \o fstr(getenv(env, "HF_API_KEY"))]
        ELSE IF p = "RUNPOD_OPENAI"
        THEN [ok |-> TRUE,
              BASE_URL |-> or_empty(getenv(env, "RUNPOD_API_BASE")),
              AUTH_HEADER |-> Bearer \o fstr(getenv(env, "RUNPOD_API_KEY"))]
        ELSE [ok |-> FALSE, BASE_URL |-> <<>>, AUTH_HEADER |-> <<>>]

\* The mutant of resolve that appends "/v1" for both providers.
resolve_v1_always(env) ==
    LET p == provider_of(env)
    IN  IF p = "HF_TGI"
        THEN [ok |-> TRUE,
              BASE_URL |-> rstrip_slash(or_empty(getenv(env, "HF_API_BASE"))) \o V1,
              AUTH_HEADER |-> Bearer \o fstr(getenv(env, "HF_API_KEY"))]
        ELSE IF p = "RUNPOD_OPENAI"
        THEN [ok |-> TRUE,
              BASE_URL |-> rstrip_slash(or_empty(getenv(env, "RUNPOD_API_BASE"))) \o V1,
              AUTH_HEADER |-> Bearer \o fstr(getenv(env, "RUNPOD_API_KEY"))]
        ELSE [ok |-> FALSE, BASE_URL |-> <<>>, AUTH_HEADER |-> <<>>]

\* The mutant of resolve that falls back to HF_TGI instead of raising.
resolve_fallback(env) ==
    LET p == provider_of(env)
    IN  IF p = "RUNPOD_OPENAI"
        THEN [ok |-> TRUE,
              BASE_URL |-> rstrip_slash(or_empty(getenv(env, "RUNPOD_API_BASE"))),
              AUTH_HEADER |-> Bearer \o fstr(getenv(env, "RUNPOD_API_KEY"))]
        ELSE [ok |-> TRUE,
              BASE_URL |-> rstrip_slash(or_empty(getenv(env, "HF_API_BASE"))) \o V1,
              AUTH_HEADER |-> Bearer \o fstr(getenv(env, "HF_API_KEY"))]

\* The if/elif/else of lines 13-22; ok is FALSE where line 22 raises.
resolve(env) ==
    LET p == provider_of(env)
    IN  IF p = "HF_TGI"
        THEN [ok |-> TRUE,
              BASE_URL |-> rstrip_slash(or_empty(getenv(env, "HF_API_BASE"))) \o V1,
              AUTH_HEADER |-> Bearer \o fstr(getenv(env, "HF_API_KEY"))]
        ELSE IF p = "RUNPOD_OPENAI"
        THEN [ok |-> TRUE,
              BASE_URL |-> rstrip_slash(or_empty(getenv(env, "RUNPOD_API_BASE"))),
              AUTH_HEADER |-> Bearer \o fstr(getenv(env, "RUNPOD_API_KEY"))]
        ELSE [ok |-> FALSE, BASE_URL |-> <<>>, AUTH_HEADER |-> <<>>]

\* Lines 10-20 with a supported provider.
ResolveProvider ==
    /\ modpc = "import"
    /\ resolve(environ).ok
    /\ PROVIDER' = provider_of(environ)
    /\ BASE_URL' = resolve(environ).BASE_URL
    /\ AUTH_HEADER' = resolve(environ).AUTH_HEADER
    /\ modpc' = "resolved"
    /\ UNCHANGED <<DEFAULT_GEN, routes, inputs, locals>>

\* Lines 10-22 with any other provider: RuntimeError ends the import.
UnsupportedProvider ==
    /\ modpc = "import"
    /\ ~resolve(environ).ok
    /\ PROVIDER' = provider_of(environ)
    /\ modpc' = "crashed"
    /\ UNCHANGED <<BASE_URL, AUTH_HEADER, DEFAULT_GEN, routes, inputs, locals>>

\* Lines 24-29; temperature and top_p in hundredths (0.6 is 60, 0.95 is 95).
DefaultGen == [temperature |-> 60, top_p |-> 95, max_tokens |-> 8192]

\* Lines 24-79: the defaults, the app and its routes; the server then serves.
CreateApp ==
    /\ modpc = "resolved"
    /\ DEFAULT_GEN' = DefaultGen
    /\ routes' = {"/healthz", "/chat", "/"}
    /\ modpc' = "serving"
    /\ UNCHANGED <<PROVIDER, BASE_URL, AUTH_HEADER, inputs, locals>>

(***************************************************************************)
(* What the framework makes of the handler's result.                       *)
(***************************************************************************)
TxtMessagesRequired == \* "messages[] required"
    <<109, 101, 115, 115, 97, 103, 101, 115, 91, 93, 32, 114, 101, 113, 117, 105, 114, 101, 100>>
TxtDetail == \* "detail"
    <<100, 101, 116, 97, 105, 108>>
TxtInternalServerError == \* "Internal Server Error"
    <<73, 110, 116, 101, 114, 110, 97, 108, 32, 83, 101, 114, 118, 101, 114, 32, 69, 114, 114, 111, 114>>

NoExc == [status_code |-> 0, detail |-> <<>>]
NoResponse == [status_code |-> 0, body |-> <<>>]

HTTPException(status_code, detail) == [status_code |-> status_code, detail |-> detail]

\* FastAPI's handler of an HTTPException: the status, and the JSON object
\* {"detail": <detail>} as the body.
http_exception_response(e) ==
    [status_code |-> e.status_code,
     body |-> json_render(JObj(<<[k |-> TxtDetail, v |-> JStr(e.detail)]>>))]

\* A handler's return value: status 200 and the value rendered as JSON.
json_response(v) == [status_code |-> 200, body |-> json_render(v)]

\* Any other exception leaving the handler: the server's plain 500.
server_error_response == [status_code |-> 500, body |-> encode_utf8(TxtInternalServerError)]

(***************************************************************************)
(* Lines 48-77: the /chat handler.                                         *)
(***************************************************************************)
\* body.get("messages", [])
messages_of(b) == IF "messages" \in DOMAIN b THEN b["messages"] ELSE <<>>

\* body.get("generation_config", {})
generation_config_of(b) ==
    IF "generation_config" \in DOMAIN b THEN b["generation_config"] ELSE EmptyDict

\* The mutant of no_messages that only looks for the key.
no_messages_key_only(b) == "messages" \notin DOMAIN b

\* Line 52: `not messages`.
no_messages(b) == messages_of(b) = <<>>

\* The mutant of merged_gen in which the defaults win.
merged_gen_defaults_win(defaults, b) == dict_merge(generation_config_of(b), defaults)

\* Line 55.
merged_gen(defaults, b) == dict_merge(defaults, generation_config_of(b))

\* Lines 56-65.
build_payload(messages, g) ==
    [input |->
        [messages |-> messages,
         sampling_params |->
            [max_tokens |-> dict_get(g, "max_tokens"),
             temperature |-> dict_get(g, "temperature"),
             top_p |-> dict_get(g, "top_p")]]]

\* Line 67.
headers_of(auth) == ("Authorization" :> auth) @@ ("Content-Type" :> "application/json")

\* Line 50: the request's JSON body is read.
Receive(r) ==
    /\ modpc = "serving"
    /\ "/chat" \in routes
    /\ pc[r] = "idle"
    /\ request[r].arrives
    /\ body' = [body EXCEPT ![r] = request[r].json]
    /\ pc' = [pc EXCEPT ![r] = "Validating"]
    /\ UNCHANGED <<globals, inputs, gen, payload, outbound, resp, exc, response>>

\* Lines 51-53.
Validate(r) ==
    /\ pc[r] = "Validating"
    /\ IF no_messages(body[r])
       THEN LET e == HTTPException(400, TxtMessagesRequired)
            IN  /\ exc' = [exc EXCEPT ![r] = e]
                /\ response' = [response EXCEPT ![r] = http_exception_response(e)]
                /\ pc' = [pc EXCEPT ![r] = "InvalidRequest"]
       ELSE /\ pc' = [pc EXCEPT ![r] = "Merging"]
            /\ UNCHANGED <<exc, response>>
    /\ UNCHANGED <<globals, inputs, body, gen, payload, outbound, resp>>

\* The mutant of Merge that merges into the shared defaults (DEFAULT_GEN.update).
Merge_in_place(r) ==
    /\ pc[r] = "Merging"
    /\ DEFAULT_GEN' = merged_gen(DEFAULT_GEN, body[r])
    /\ gen' = [gen EXCEPT ![r] = DEFAULT_GEN']
    /\ payload' = [payload EXCEPT ![r] = build_payload(messages_of(body[r]), DEFAULT_GEN')]
    /\ pc' = [pc EXCEPT ![r] = "Dispatching"]
    /\ UNCHANGED <<modpc, PROVIDER, BASE_URL, AUTH_HEADER, routes, inputs,
                   body, outbound, resp, exc, response>>

\* Lines 55-65.
Merge(r) ==
    /\ pc[r] = "Merging"
    /\ gen' = [gen EXCEPT ![r] = merged_gen(DEFAULT_GEN, body[r])]
    /\ payload' = [payload EXCEPT ![r] = build_payload(messages_of(body[r]), gen'[r])]
    /\ pc' = [pc EXCEPT ![r] = "Dispatching"]
    /\ UNCHANGED <<globals, inputs, body, outbound, resp, exc, response>>

\* Line 70.
post_url(base) == base

\* Lines 67-71: client.post is called; the handler awaits the result.
Post(r) ==
    /\ pc[r] = "Dispatching"
    /\ outbound' = [outbound EXCEPT ![r] =
            Append(@, [url |-> post_url(BASE_URL),
                       headers |-> headers_of(AUTH_HEADER),
                       json |-> payload[r]])]
    /\ pc' = [pc EXCEPT ![r] = "Awaiting"]
    /\ UNCHANGED <<globals, inputs, body, gen, payload, resp, exc, response>>

\* The mutant of backend_error that reports every backend failure as 502.
backend_error_502(rsp) == HTTPException(502, decode_ignore(rsp.content))

\* Lines 73-74.
backend_error(rsp) == HTTPException(rsp.status_code, decode_ignore(rsp.content))

\* The mutant of success_value that returns the value inside a list.
success_value_wrapped(data) == JArr(<<data>>)

\* Lines 75-77.
success_value(data) == data

\* Line 72.
is_success(rsp) == rsp.status_code = 200

\* Lines 71-77: the backend's response arrives and is mapped.
Respond(r) ==
    /\ pc[r] = "Awaiting"
    /\ backend[r].kind = "response"
    /\ LET rsp == [status_code |-> backend[r].status_code, content |-> backend[r].content]
           data == json_loads(rsp.content)
       IN  /\ resp' = [resp EXCEPT ![r] = rsp]
           /\ IF ~is_success(rsp)
              THEN /\ exc' = [exc EXCEPT ![r] = backend_error(rsp)]
                   /\ response' = [response EXCEPT ![r] = http_exception_response(exc'[r])]
                   /\ pc' = [pc EXCEPT ![r] = "BackendError"]
              ELSE IF data.ok
              THEN /\ response' = [response EXCEPT ![r] = json_response(success_value(data.v))]
                   /\ pc' = [pc EXCEPT ![r] = "Success"]
                   /\ UNCHANGED exc
              ELSE /\ response' = [response EXCEPT ![r] = server_error_response]
                   /\ pc' = [pc EXCEPT ![r] = "TransportError"]
                   /\ UNCHANGED exc
    /\ UNCHANGED <<globals, inputs, body, gen, payload, outbound>>

\* The mutant of TransportFail that posts once more before giving up.
TransportFail_retry(r) ==
    /\ pc[r] = "Awaiting"
    /\ backend[r].kind = "error"
    /\ IF Len(outbound[r]) < 2
       THEN /\ outbound' = [outbound EXCEPT ![r] = Append(@, @[1])]
            /\ UNCHANGED <<pc, response>>
       ELSE /\ response' = [response EXCEPT ![r] = server_error_response]
            /\ pc' = [pc EXCEPT ![r] = "TransportError"]
            /\ UNCHANGED outbound
    /\ UNCHANGED <<globals, inputs, body, gen, payload, resp, exc>>

\* The mutant of TransportFail that clears BASE_URL after a failed call.
TransportFail_failover(r) ==
    /\ pc[r] = "Awaiting"
    /\ backend[r].kind = "error"
    /\ response' = [response EXCEPT ![r] = server_error_response]
    /\ pc' = [pc EXCEPT ![r] = "TransportError"]
    /\ BASE_URL' = <<>>
    /\ UNCHANGED <<modpc, PROVIDER, AUTH_HEADER, DEFAULT_GEN, routes, inputs,
                   body, gen, payload, outbound, resp, exc>>

\* Line 71 raising (connection refused, DNS failure, ...): the exception leaves the
\* handler unhandled.
TransportFail(r) ==
    /\ pc[r] = "Awaiting"
    /\ backend[r].kind = "error"
    /\ response' = [response EXCEPT ![r] = server_error_response]
    /\ pc' = [pc EXCEPT ![r] = "TransportError"]
    /\ UNCHANGED <<globals, inputs, body, gen, payload, outbound, resp, exc>>

Next ==
    \/ ResolveProvider
    \/ UnsupportedProvider
    \/ CreateApp
    \/ \E r \in Calls : Receive(r)
    \/ \E r \in Calls : Validate(r)
    \/ \E r \in Calls : Merge(r)
    \/ \E r \in Calls : Post(r)
    \/ \E r \in Calls : Respond(r)
    \/ \E r \in Calls : TransportFail(r)

(***************************************************************************)
(* The inputs: the environment the process starts in, the requests the     *)
(* clients send and the backend's behaviour.                               *)
(***************************************************************************)
Opt(name, isSet, value) == IF isSet THEN name :> value ELSE EmptyDict

BaseChars == {"h", "/"}
Bases == SeqsUpTo(BaseChars, MaxBaseLen)
Keys == {<<"k">>}

\* Every environment: each variable unset or set; PROVIDER "TGI" is the spec's name
\* of the kind, which the code does not know.
RichEnvs ==
    {    Opt("PROVIDER", sp, p) @@ Opt("HF_API_BASE", sh, h) @@ Opt("RUNPOD_API_BASE", sr, b)
      @@ Opt("HF_API_KEY", sk, k) @@ Opt("RUNPOD_API_KEY", sq, k) :
         sp \in BOOLEAN, p \in {"HF_TGI", "RUNPOD_OPENAI", "TGI"},
         sh \in BOOLEAN, h \in Bases, sr \in BOOLEAN, b \in Bases,
         sk \in BOOLEAN, sq \in BOOLEAN, k \in Keys }

SmallEnvs ==
    { ("PROVIDER" :> "HF_TGI") @@ ("HF_API_BASE" :> <<"h", "/">>) @@ ("HF_API_KEY" :> <<"k">>),
      ("PROVIDER" :> "RUNPOD_OPENAI") @@ ("RUNPOD_API_BASE" :> <<"h">>),
      ("PROVIDER" :> "TGI") @@ ("HF_API_BASE" :> <<"h">>) }

Msg == [role |-> "user", content |-> "hi"]
GenKeys == {"temperature", "top_p", "max_tokens", "top_k"}
\* The values a caller gives a key: none is the key's default.
CallerValues == [temperature |-> {0, 20}, top_p |-> {50}, max_tokens |-> {100}, top_k |-> {40}]
GenConfigs ==
    UNION { {g \in [K -> {0, 20, 40, 50, 100}] : \A k \in K : g[k] \in CallerValues[k]} :
            K \in SUBSET GenKeys }

Body(hasMessages, messages, hasConfig, cfg) ==
    Opt("messages", hasMessages, messages) @@ Opt("generation_config", hasConfig, cfg)

RichBodies ==
    { Body(hm, m, hg, g) :
        hm \in BOOLEAN, m \in {<<>>, <<Msg>>, <<Msg, Msg>>}, hg \in BOOLEAN, g \in GenConfigs }

SmallBodies ==
    { Body(FALSE, <<>>, TRUE, [temperature |-> 20]),
      Body(TRUE, <<Msg>>, FALSE, EmptyDict),
      Body(TRUE, <<Msg>>, TRUE, [temperature |-> 20]),
      Body(TRUE, <<Msg>>, TRUE, [top_p |-> 50, max_tokens |-> 100]) }

Request(json) == [arrives |-> TRUE, json |-> json]
NoRequest == [arrives |-> FALSE, json |-> EmptyDict]

Reply(status_code, content) ==
    [kind |-> "response", status_code |-> status_code, content |-> content]
Refused == [kind |-> "error", status_code |-> 0, content |-> <<>>]

ExJson == \* {"id":"abc"}
    <<123, 34, 105, 100, 34, 58, 34, 97, 98, 99, 34, 125>>
ExJsonSpaced == \* { "id" : "abc" }
    <<123, 32, 34, 105, 100, 34, 32, 58, 32, 34, 97, 98, 99, 34, 32, 125>>
ExOverloaded == \* overloaded
    <<111, 118, 101, 114, 108, 111, 97, 100, 101, 100>>
ExQuoted == \* "e-acute" as a JSON string: the quotes around the two bytes of U+00E9
    <<34, 195, 169, 34>>
ExampleBodies == {ExJson, ExJsonSpaced, ExOverloaded, ExQuoted}

\* 1, [, ], the space, and the two bytes of U+00E9: each alone is no UTF-8.
BodyBytes == {49, 91, 93, 32, 195, 169}
Statuses == {200, 201, 503}

RichBackends ==
    { Reply(st, c) : st \in Statuses, c \in SeqsUpTo(BodyBytes, MaxBodyLen) \cup ExampleBodies }
    \cup {Refused}

SmallBackends == {Reply(200, ExJson), Reply(503, ExOverloaded), Refused}

NoPayload == [input |-> [messages |-> <<>>, sampling_params |-> EmptyDict]]
NoResp == [status_code |-> 0, content |-> <<>>]

\* The process before line 10 runs, with no call begun.
Start ==
    /\ modpc = "import"
    /\ PROVIDER = ""
    /\ BASE_URL = <<>>
    /\ AUTH_HEADER = <<>>
    /\ DEFAULT_GEN = EmptyDict
    /\ routes = {}
    /\ pc = [r \in Calls |-> "idle"]
    /\ body = [r \in Calls |-> EmptyDict]
    /\ gen = [r \in Calls |-> EmptyDict]
    /\ payload = [r \in Calls |-> NoPayload]
    /\ outbound = [r \in Calls |-> <<>>]
    /\ resp = [r \in Calls |-> NoResp]
    /\ exc = [r \in Calls |-> NoExc]
    /\ response = [r \in Calls |-> NoResponse]

\* One call only: the first.
Single(x, none) == [r \in Calls |-> IF r = 1 THEN x ELSE none]

\* Concurrent calls, under one supported and one unsupported provider.
Init ==
    /\ environ \in {e \in SmallEnvs : provider_of(e) # "RUNPOD_OPENAI"}
    /\ request \in [Calls -> {Request(b) : b \in SmallBodies}]
    /\ backend \in [Calls -> SmallBackends]
    /\ Start

\* One call, every environment.
InitResolve ==
    /\ environ \in RichEnvs
    /\ \E b \in {Body(FALSE, <<>>, FALSE, EmptyDict), Body(TRUE, <<Msg>>, FALSE, EmptyDict)} :
          request = Single(Request(b), NoRequest)
    /\ \E x \in SmallBackends : backend = Single(x, Refused)
    /\ Start

\* One call, every request body.
InitRequest ==
    /\ environ \in SmallEnvs
    /\ \E b \in RichBodies : request = Single(Request(b), NoRequest)
    /\ \E x \in SmallBackends : backend = Single(x, Refused)
    /\ Start

\* One call, every backend behaviour.
InitBackend ==
    /\ environ \in SmallEnvs
    /\ \E b \in SmallBodies : request = Single(Request(b), NoRequest)
    /\ \E x \in RichBackends : backend = Single(x, Refused)
    /\ Start

Spec == Init /\ [][Next]_vars
SpecResolve == InitResolve /\ [][Next]_vars
SpecRequest == InitRequest /\ [][Next]_vars
SpecBackend == InitBackend /\ [][Next]_vars

(***************************************************************************)
(* The claims.                                                             *)
(***************************************************************************)
Answered == {"Success", "BackendError", "TransportError"}
Posted == {"Awaiting"} \cup Answered
Merged == {"Dispatching"} \cup Posted

\* The generation_config a call's client sent ({} when it sent none).
SentConfig(r) ==
    IF "generation_config" \in DOMAIN request[r].json
    THEN request[r].json["generation_config"] ELSE EmptyDict

\* The messages a call's client sent, if any.
SentNoMessages(r) ==
    \/ "messages" \notin DOMAIN request[r].json
    \/ request[r].json["messages"] = <<>>

\* The sampling parameters the claims expect of a call: the caller's value of each
\* of the three keys, else 8192, 0.6 (60 hundredths) and 0.95 (95 hundredths).
ExpectedSampling(r) ==
    LET c == SentConfig(r)
    IN  [max_tokens |-> IF "max_tokens" \in DOMAIN c THEN c["max_tokens"] ELSE 8192,
         temperature |-> IF "temperature" \in DOMAIN c THEN c["temperature"] ELSE 60,
         top_p |-> IF "top_p" \in DOMAIN c THEN c["top_p"] ELSE 95]

\* C1: a call whose body has no `messages`, or an empty one, never gets past
\* validation, never posts to the backend, and ends with HTTP 400 and the reason
\* "messages[] required".
C1_EmptyMessagesRejected ==
    \A r \in Calls :
        (request[r].arrives /\ SentNoMessages(r)) =>
            /\ outbound[r] = <<>>
            /\ pc[r] \in {"idle", "Validating", "InvalidRequest"}
            /\ pc[r] = "InvalidRequest" =>
                  /\ response[r].status_code = 400
                  /\ exc[r].status_code = 400
                  /\ exc[r].detail = TxtMessagesRequired

\* C1's case: a body with an empty `messages` list was rejected.
C1_Witness ==
    \E r \in Calls :
        /\ "messages" \in DOMAIN request[r].json
        /\ request[r].json["messages"] = <<>>
        /\ pc[r] = "InvalidRequest"
        /\ response[r].status_code = 400

C3_SamplingParams ==
    \A r \in Calls :
        pc[r] \in Merged =>
            /\ DOMAIN payload[r].input.sampling_params = {"max_tokens", "temperature", "top_p"}
            /\ payload[r].input.sampling_params = ExpectedSampling(r)
            /\ payload[r].input.messages = request[r].json["messages"]
            /\ \A i \in 1..Len(outbound[r]) : outbound[r][i].json = payload[r]

\* C3's case: a partial override (temperature, and a key that is not forwarded) was
\* posted.
C3_Witness ==
    \E r \in Calls :
        /\ pc[r] = "Awaiting"
        /\ DOMAIN SentConfig(r) = {"temperature", "top_k"}
        /\ SentConfig(r)["temperature"] = 0
        /\ outbound[r][1].json.input.sampling_params =
              [max_tokens |-> 8192, temperature |-> 0, top_p |-> 95]

\* C4: with calls interleaved in every way, each call's merged parameters and
\* payload come from the defaults and its own generation_config alone, and the
\* shared DEFAULT_GEN stays what line 24 made it.
C4_NoSharedMergeState ==
    /\ modpc = "serving" =>
          DEFAULT_GEN = [temperature |-> 60, top_p |-> 95, max_tokens |-> 8192]
    /\ \A r \in Calls :
          pc[r] \in Merged =>
              /\ \A k \in DOMAIN ExpectedSampling(r) : gen[r][k] = ExpectedSampling(r)[k]
              /\ \A k \in DOMAIN SentConfig(r) : gen[r][k] = SentConfig(r)[k]
              /\ payload[r].input.sampling_params = ExpectedSampling(r)

\* C4's case: two calls with different overrides are in flight together.
C4_Witness ==
    \E r, q \in Calls :
        /\ r # q
        /\ pc[r] = "Awaiting"
        /\ pc[q] = "Awaiting"
        /\ SentConfig(r) = [temperature |-> 20]
        /\ SentConfig(q) = EmptyDict

\* The provider the environment selects, and the base it configures for a kind
\* ("" when the variable is unset).
SelectedProvider == IF "PROVIDER" \in DOMAIN environ THEN environ["PROVIDER"] ELSE "HF_TGI"
ConfiguredBase(name) == IF name \in DOMAIN environ THEN environ[name] ELSE <<>>
Resolved == modpc \in {"resolved", "serving"}

\* u is base without its trailing slashes.
IsStripped(base, u) ==
    \E n \in 0..Len(base) :
        /\ u = SubSeq(base, 1, n)
        /\ \A i \in (n + 1)..Len(base) : base[i] = "/"
        /\ n = 0 \/ base[n] # "/"

OnlySlashes(base) == \A i \in 1..Len(base) : base[i] = "/"

\* C5: with a PROVIDER that is neither HF_TGI nor RUNPOD_OPENAI the import ends in
\* the RuntimeError: no route is registered, no call is handled, nothing is posted.
C5_UnknownProviderNeverServes ==
    SelectedProvider \notin {"HF_TGI", "RUNPOD_OPENAI"} =>
        /\ modpc \in {"import", "crashed"}
        /\ routes = {}
        /\ \A r \in Calls :
              /\ pc[r] = "idle"
              /\ outbound[r] = <<>>
              /\ response[r] = NoResponse

\* C5's case: the import failed on PROVIDER=TGI while a request was waiting.
C5_Witness ==
    /\ modpc = "crashed"
    /\ PROVIDER = "TGI"
    /\ \E r \in Calls : request[r].arrives

\* C6: a backend response with status 200 and a JSON body ends the call as a success
\* with status 200 and a body that is the same JSON value ({"id":"abc"} yields
\* {"id":"abc"}; only the whitespace around the tokens is not kept).
C6_SuccessPassthrough ==
    \A r \in Calls :
        (/\ pc[r] \in Answered
         /\ backend[r].kind = "response"
         /\ backend[r].status_code = 200
         /\ json_loads(backend[r].content).ok) =>
            /\ pc[r] = "Success"
            /\ response[r].status_code = 200
            /\ json_loads(response[r].body).ok
            /\ json_render(json_loads(response[r].body).v)
                  = json_render(json_loads(backend[r].content).v)
            /\ backend[r].content \in {ExJson, ExJsonSpaced} => response[r].body = ExJson
            /\ backend[r].content = ExQuoted => response[r].body = ExQuoted
            /\ exc[r] = NoExc

\* C6's case: the backend answered 200 {"id":"abc"}.
C6_Witness ==
    \E r \in Calls :
        /\ pc[r] = "Success"
        /\ backend[r] = Reply(200, ExJson)
        /\ response[r] = [status_code |-> 200, body |-> ExJson]

\* C7: BASE_URL is the selected provider's configured base without its trailing
\* slashes, followed by "/v1" for HF_TGI and by nothing for RUNPOD_OPENAI, and every
\* POST goes to BASE_URL.
C7_ResolvedUrl ==
    Resolved =>
        /\ SelectedProvider = "HF_TGI" =>
              \E u \in SeqsUpTo(BaseChars, Len(ConfiguredBase("HF_API_BASE"))) :
                  /\ IsStripped(ConfiguredBase("HF_API_BASE"), u)
                  /\ BASE_URL = u \o <<"/", "v", "1">>
        /\ SelectedProvider = "RUNPOD_OPENAI" =>
              IsStripped(ConfiguredBase("RUNPOD_API_BASE"), BASE_URL)
        /\ (SelectedProvider = "HF_TGI" /\ ConfiguredBase("HF_API_BASE") = <<"h", "/">>) =>
              BASE_URL = <<"h", "/", "v", "1">>
        /\ (SelectedProvider = "RUNPOD_OPENAI" /\ ConfiguredBase("RUNPOD_API_BASE") = <<"h", "/">>) =>
              BASE_URL = <<"h">>
        /\ \A r \in Calls : \A i \in 1..Len(outbound[r]) : outbound[r][i].url = BASE_URL

\* C7's case: a call was posted under HF_TGI with the base "h/".
C7_Witness ==
    \E r \in Calls :
        /\ PROVIDER = "HF_TGI"
        /\ ConfiguredBase("HF_API_BASE") = <<"h", "/">>
        /\ pc[r] \in Posted
        /\ outbound[r][1].url = <<"h", "/", "v", "1">>

\* C8: once the provider is resolved no step changes PROVIDER, BASE_URL or
\* AUTH_HEADER, whatever the calls end in, and a step of one call changes nothing of
\* another call.
C8_ErrorsAreLocal ==
    [][ /\ Resolved => config' = config
        /\ \A r \in Calls :
              pc'[r] # pc[r] =>
                  \A q \in Calls \ {r} :
                      /\ pc'[q] = pc[q]
                      /\ body'[q] = body[q]
                      /\ gen'[q] = gen[q]
                      /\ payload'[q] = payload[q]
                      /\ outbound'[q] = outbound[q]
                      /\ resp'[q] = resp[q]
                      /\ exc'[q] = exc[q]
                      /\ response'[q] = response[q]
      ]_vars

\* C8's case: one call ended in an error and another, sent to the URL resolved at
\* startup, in a success.
C8_Witness ==
    \E r, q \in Calls :
        /\ pc[r] \in {"TransportError", "BackendError"}
        /\ pc[q] = "Success"
        /\ SelectedProvider = "HF_TGI"
        /\ outbound[q][1].url = <<"h", "/", "v", "1">>
        /\ BASE_URL = <<"h", "/", "v", "1">>

\* The steps of a call: Validating, Merging, Dispatching (the POST about to be made,
\* then awaited), and one final outcome.
CallSteps ==
    { <<"idle", "Validating">>, <<"Validating", "InvalidRequest">>,
      <<"Validating", "Merging">>, <<"Merging", "Dispatching">>,
      <<"Dispatching", "Awaiting">>, <<"Awaiting", "Success">>,
      <<"Awaiting", "BackendError">>, <<"Awaiting", "TransportError">> }

\* C9: a call only moves along Validating, Merging, Dispatching and one final
\* outcome, which it never leaves; it has made exactly one POST from the moment it
\* awaits the backend, whatever the outcome, and none before.
C9_SingleHop ==
    [][ \A r \in Calls :
          /\ pc'[r] # pc[r] => <<pc[r], pc'[r]>> \in CallSteps
          /\ Len(outbound'[r]) = IF pc'[r] \in Posted THEN 1 ELSE 0
          /\ Len(outbound'[r]) >= Len(outbound[r])
      ]_vars

\* C9's case: a call that failed, with its one POST.
C9_Witness ==
    \E r \in Calls :
        /\ pc[r] = "TransportError"
        /\ Len(outbound[r]) = 1

\* C10 as claimed: the resolved BASE_URL is non-empty and has no trailing slash.
C10_NonEmptyNoTrailingSlash ==
    Resolved => (BASE_URL # <<>> /\ BASE_URL[Len(BASE_URL)] # "/")

\* C10 as amended: the resolved BASE_URL never ends in a slash; it is empty exactly
\* when the provider is RUNPOD_OPENAI and RUNPOD_API_BASE is unset, empty or made of
\* slashes only.
C10_NoTrailingSlash ==
    Resolved =>
        /\ BASE_URL = <<>> \/ BASE_URL[Len(BASE_URL)] # "/"
        /\ BASE_URL = <<>> <=>
              (SelectedProvider = "RUNPOD_OPENAI" /\ OnlySlashes(ConfiguredBase("RUNPOD_API_BASE")))

\* C10's case: RUNPOD_OPENAI with a base ending in two slashes.
C10_Witness ==
    /\ modpc = "serving"
    /\ PROVIDER = "RUNPOD_OPENAI"
    /\ ConfiguredBase("RUNPOD_API_BASE") = <<"h", "/", "/">>
    /\ BASE_URL = <<"h">>

=============================================================================
